---------------------------- MODULE Spec2Model ----------------------------
(***************************************************************************)
(* PopOut-Calc (src/popout-calc.py): an always-on-top calculator that      *)
(* docks against a screen edge, leaves a sliver visible while hidden and   *)
(* slides in when the pointer hovers over the sliver.                      *)
(*                                                                         *)
(* The model follows class CalculatorApp.  Its state is the object's       *)
(* attributes, the callbacks pending in Tk's timer queue (root.after) and  *)
(* the persisted configuration file.  Every handler of the class is one    *)
(* action.  Attributes that set_geometry_parameters derives from side and  *)
(* button_size (calc_width, total_width, full_height, x_visible, ...) are  *)
(* operators over the current state: every assignment of side or           *)
(* button_size is followed, in the same handler, by rebuild_ui and thus by *)
(* set_geometry_parameters, and each branch of the code reads only the     *)
(* attributes that the same branch of set_geometry_parameters wrote.       *)
(***************************************************************************)
EXTENDS Integers, Sequences, FiniteSets, TLC

VARIABLES
    button_size,     \* self.button_size
    side,            \* self.side
    current_font,    \* self.current_font
    theme,           \* self.theme
    x_pos,           \* self.x_pos (None or an integer)
    y_pos,           \* self.y_pos (None or an integer)
    is_expanded,     \* self.is_expanded
    current_offset,  \* self.current_offset
    expression,      \* self.expression, a sequence of button tokens
    drag,            \* drag_start_y/initial_y (drag_start_x/initial_x), or NoDrag
    timers,          \* callbacks pending in root.after's queue
    config_file,     \* content of calc_config.json, or NoFile
    writable,        \* open(self.config_file, "w") succeeds
    raised           \* the exception the last handler let escape, or NoError

vars == <<button_size, side, current_font, theme, x_pos, y_pos, is_expanded,
          current_offset, expression, drag, timers, config_file, writable,
          raised>>

settings == <<button_size, side, current_font, theme>>

---------------------------------------------------------------------------
(* Program constants *)

hidden_size == 20

step == 10

buttons_rows == 5

default_button_size == 48

\* Python's None for x_pos / y_pos: a value no screen coordinate takes.
None == -99999

Sizes == {48, 64, 128, 256}

Sides == {"left", "right", "top", "bottom"}

Fonts == {"Arial", "Tahoma", "Calibri", "Verdana", "Segoe UI"}

Themes == {"light", "dark"}

---------------------------------------------------------------------------
(* Environment: the screen, the pointer positions polled, the drag events *)

\* root.winfo_screenwidth() / root.winfo_screenheight(), read once.
screen_width == 1600

screen_height == 900

\* Pointer positions pyautogui.position() may report (on-screen points): in
\* the sliver of each dock edge, over the widget's body, and away from it.
Mouse ==
    {<<1590, 450>>, <<10, 450>>, <<800, 890>>, <<800, 330>>, <<800, 450>>,
     <<500, 10>>}

\* Where on the drag handle the button is pressed, from the handle's origin.
Grip == 3

\* Pointer coordinate (along the cross axis) reported by a B1-Motion event.
DragTo == {2, 403}

\* Anchors a configuration file of an earlier session may hold.
SavedAnchors == {None, 0}

\* Most slide_in/slide_out callbacks pending together that the model follows.
MaxPending == 2

\* Longest expression a button click still appends to.
MaxExprLen == 6

\* The buttons clicked: a digit, the clear key and the equals key.
ClickChars == {"7", "C", "="}

\* The buttons clicked where the calculator is followed on its own: a digit,
\* two operators, both clear keys and the equals key.
Keys == {"0", "+", "/", "C", "CE", "="}

\* No selection for clipboard_get to return.
NoSelection == <<>>

\* What the clipboard may hold: nothing, numbers (one inside blanks), text
\* that is no number, and "nan".
Clipboard ==
    {NoSelection, <<"0">>, <<" ", "0", "0", " ">>, <<"0", "+">>,
     <<"n", "a", "n">>}

---------------------------------------------------------------------------
(* set_geometry_parameters: the derived layout *)

\* int(n / 2) of Python: true division, then truncation toward zero.
IntHalf(n) == IF n >= 0 THEN n \div 2 ELSE -((-n) \div 2)

Min(a, b) == IF a <= b THEN a ELSE b

Max(a, b) == IF a >= b THEN a ELSE b

Horizontal(sd) == sd \in {"right", "left"}

handle_height(bs) == bs \div 4

copy_height(bs) == bs \div 2

display_height(bs) == bs

calc_width(bs) == 4 * bs

total_width(bs) == calc_width(bs) + hidden_size

full_height(bs) ==
    handle_height(bs) + copy_height(bs) + display_height(bs) + buttons_rows * bs

calc_height(bs) ==
    handle_height(bs) + copy_height(bs) + display_height(bs) + buttons_rows * bs

total_height(bs) == calc_height(bs) + hidden_size

full_width(bs) == 4 * bs

x_visible(sd, bs) ==
    IF sd = "right" THEN screen_width - total_width(bs) ELSE hidden_size

x_hidden(sd, bs) ==
    IF sd = "right" THEN screen_width - hidden_size ELSE calc_width(bs)

y_visible(sd, bs) ==
    IF sd = "top" THEN hidden_size ELSE screen_height - total_height(bs)

y_hidden(sd, bs) ==
    IF sd = "top" THEN calc_height(bs) ELSE screen_height - hidden_size

\* x_visible or y_visible, whichever the branch for sd assigns.
VisibleOffset(sd, bs) ==
    IF Horizontal(sd) THEN x_visible(sd, bs) ELSE y_visible(sd, bs)

\* x_hidden or y_hidden, whichever the branch for sd assigns.
HiddenOffset(sd, bs) ==
    IF Horizontal(sd) THEN x_hidden(sd, bs) ELSE y_hidden(sd, bs)

\* y_pos after set_geometry_parameters: centred when it was None (left/right).
DefaultY(sd, bs, y) ==
    IF Horizontal(sd) /\ y = None
    THEN IntHalf(screen_height - full_height(bs))
    ELSE y

\* x_pos after set_geometry_parameters: centred when it was None (top/bottom).
DefaultX(sd, bs, x) ==
    IF ~Horizontal(sd) /\ x = None
    THEN IntHalf(screen_width - full_width(bs))
    ELSE x

\* current_offset as set_geometry_parameters resets it.
ResetOffset(sd, bs, exp) ==
    IF exp THEN VisibleOffset(sd, bs) ELSE HiddenOffset(sd, bs)

---------------------------------------------------------------------------
(* update_geometry: where the window is placed *)

\* The rectangle root.geometry() is given: [w, h, x, y].
geometry(sd, bs, off, x, y) ==
    IF Horizontal(sd)
    THEN [w |-> total_width(bs), h |-> full_height(bs), x |-> off, y |-> y]
    ELSE [w |-> full_width(bs), h |-> total_height(bs), x |-> x, y |-> off]

\* The sideLabel is placed exactly when the window sits at the hidden offset.
sideLabel_placed(sd, bs, off) == off = HiddenOffset(sd, bs)

---------------------------------------------------------------------------
(* check_hover: the rectangles the poll tests the pointer against *)

\* "full_left <= mouse_x <= full_right and full_top <= mouse_y <= full_bottom"
InFull(m, sd, bs, x, y) ==
    IF Horizontal(sd)
    THEN /\ (IF sd = "right" THEN x_visible(sd, bs) ELSE 0) <= m[1]
         /\ m[1] <= (IF sd = "right" THEN screen_width ELSE total_width(bs))
         /\ y <= m[2]
         /\ m[2] <= y + full_height(bs)
    ELSE /\ x <= m[1]
         /\ m[1] <= x + full_width(bs)
         /\ y_visible(sd, bs) <= m[2]
         /\ m[2] <= y_visible(sd, bs) + total_height(bs)

\* "bar_left <= mouse_x <= bar_right and bar_top <= mouse_y <= bar_bottom"
InBar(m, sd, bs, x, y) ==
    IF Horizontal(sd)
    THEN /\ (IF sd = "right" THEN screen_width - hidden_size ELSE 0) <= m[1]
         /\ m[1] <= (IF sd = "right" THEN screen_width ELSE hidden_size)
         /\ y <= m[2]
         /\ m[2] <= y + full_height(bs)
    ELSE /\ x <= m[1]
         /\ m[1] <= x + full_width(bs)
         /\ (IF sd = "top" THEN calc_height(bs)
                           ELSE screen_height - hidden_size) <= m[2]
         /\ m[2] <= (IF sd = "top" THEN calc_height(bs) + hidden_size
                                   ELSE screen_height)

\* The stay-expanded rectangle: full_left, full_right, full_top, full_bottom.
full(sd, bs, x, y) ==
    IF Horizontal(sd)
    THEN [left |-> IF sd = "right" THEN x_visible(sd, bs) ELSE 0,
          right |-> IF sd = "right" THEN screen_width ELSE total_width(bs),
          top |-> y,
          bottom |-> y + full_height(bs)]
    ELSE [left |-> x,
          right |-> x + full_width(bs),
          top |-> y_visible(sd, bs),
          bottom |-> y_visible(sd, bs) + total_height(bs)]

\* The sliver rectangle: bar_left, bar_right, bar_top, bar_bottom.
bar(sd, bs, x, y) ==
    IF Horizontal(sd)
    THEN [left |-> IF sd = "right" THEN screen_width - hidden_size ELSE 0,
          right |-> IF sd = "right" THEN screen_width ELSE hidden_size,
          top |-> y,
          bottom |-> y + full_height(bs)]
    ELSE [left |-> x,
          right |-> x + full_width(bs),
          top |-> IF sd = "top" THEN calc_height(bs)
                                ELSE screen_height - hidden_size,
          bottom |-> IF sd = "top" THEN calc_height(bs) + hidden_size
                                   ELSE screen_height]

---------------------------------------------------------------------------
(* slide_in / slide_out: one animation step *)

\* The guard of slide_in's branch for sd: the step is taken and rescheduled.
slide_in_moves(sd, bs, off) ==
    IF sd \in {"right", "bottom"}
    THEN off > VisibleOffset(sd, bs)
    ELSE off < VisibleOffset(sd, bs)

\* slide_in that steps without clamping at the visible offset.
slide_in_unclamped(sd, bs, off) ==
    IF ~slide_in_moves(sd, bs, off) THEN off
    ELSE IF sd \in {"right", "bottom"} THEN off - step ELSE off + step

\* current_offset after slide_in.
slide_in(sd, bs, off) ==
    IF ~slide_in_moves(sd, bs, off) THEN off
    ELSE IF sd \in {"right", "bottom"}
         THEN Max(off - step, VisibleOffset(sd, bs))
         ELSE Min(off + step, VisibleOffset(sd, bs))

\* The guard of slide_out's branch for sd.
slide_out_moves(sd, bs, off) ==
    IF sd \in {"right", "bottom"}
    THEN off < HiddenOffset(sd, bs)
    ELSE off > HiddenOffset(sd, bs)

\* slide_out that puts the window at the hidden offset at once.
slide_out_snap(sd, bs, off) == HiddenOffset(sd, bs)

\* current_offset after slide_out.
slide_out(sd, bs, off) ==
    IF ~slide_out_moves(sd, bs, off) THEN off
    ELSE IF sd \in {"right", "bottom"}
         THEN Min(off + step, HiddenOffset(sd, bs))
         ELSE Max(off - step, HiddenOffset(sd, bs))

\* The timer queue.  Tk runs timer callbacks in the order they fall due, so
\* the callbacks scheduled with the same delay (root.after(10, ...): slide_in
\* and slide_out) run in the order they were scheduled: anim is that queue.
\* The poll has another delay (root.after(100, self.check_hover)); when it
\* falls due among the animation callbacks depends on how long the handlers
\* run, so it may run between any two of them: check_hover counts the polls
\* pending.

\* root.after(10, f): callback f joins the animation callbacks pending.
after(q, f) == [q EXCEPT !.anim = Append(@, f)]

\* Tk takes the animation callback due first out of the queue to run it.
fire(q) == [q EXCEPT !.anim = Tail(@)]

\* f is the animation callback due first.
due(q, f) == q.anim # <<>> /\ Head(q.anim) = f

\* Tk takes the poll that is due out of the queue to run it.
fire_poll(q) == [q EXCEPT !.check_hover = @ - 1]

\* A poll that schedules itself twice.
after_poll_twice(q) == [q EXCEPT !.check_hover = @ + 2]

\* root.after(100, self.check_hover): one more poll pending.
after_poll(q) == [q EXCEPT !.check_hover = @ + 1]

\* The number of callbacks f pending.
pending(q, f) == Cardinality({i \in 1..Len(q.anim) : q.anim[i] = f})

AnimPending == Len(timers.anim)

---------------------------------------------------------------------------
(* load_config / save_config: the configuration file *)

\* No calc_config.json on disk.
NoFile == <<>>

\* A calc_config.json that open(..., "r") cannot read, one whose text is no
\* JSON document, and one whose JSON document is an array, not an object.  A
\* file that holds a JSON object is the one-element sequence of that object:
\* a record of its keys, with JSON null written as None (json.dump writes None
\* as null and json.load reads null as None).
Unreadable == <<"unreadable", "">>

Malformed == <<"malformed", "{button_size: 4">>

NotObject == <<"array", "[48, 64]">>

\* No exception.
NoError == ""

\* The exception classes derived from Exception that the handlers meet.
Exception ==
    {"OSError", "JSONDecodeError", "AttributeError", "ValueError", "TclError",
     "SyntaxError", "NameError", "ZeroDivisionError"}

\* The exception load_config's try body raises: open raises OSError, json.load
\* raises JSONDecodeError, config.get raises AttributeError on a list.
try_raises(file) ==
    IF Len(file) # 2 THEN NoError
    ELSE IF file[1] = "unreadable" THEN "OSError"
    ELSE IF file[1] = "malformed" THEN "JSONDecodeError"
    ELSE "AttributeError"

\* The record save_config dumps.
config(bs, sd, f, th, x, y) ==
    [button_size |-> bs, side |-> sd, current_font |-> f, theme |-> th,
     x_pos |-> x, y_pos |-> y]

\* The settings load_config assigns in its except and its else branch.
defaults == config(default_button_size, "right", "Arial", "light", None, None)

\* dict.get(key, default)
get(c, key, default) == IF key \in DOMAIN c THEN c[key] ELSE default

\* load_config with one copy of the defaults gone wrong: theme "dark" in the
\* except branch.
load_config_dark_on_error(file) ==
    IF file = NoFile THEN defaults
    ELSE IF try_raises(file) \in Exception
    THEN [defaults EXCEPT !.theme = "dark"]
    ELSE LET c == file[1] IN
         config(get(c, "button_size", default_button_size),
                get(c, "side", "right"),
                get(c, "current_font", "Arial"),
                get(c, "theme", "light"),
                get(c, "x_pos", None),
                get(c, "y_pos", None))

\* load_config that looks the font up under the key "font".
load_config_font_key(file) ==
    IF file = NoFile THEN defaults
    ELSE IF try_raises(file) \in Exception THEN defaults
    ELSE LET c == file[1] IN
         config(get(c, "button_size", default_button_size),
                get(c, "side", "right"),
                get(c, "font", "Arial"),
                get(c, "theme", "light"),
                get(c, "x_pos", None),
                get(c, "y_pos", None))

\* The settings load_config assigns for a file's content.
load_config(file) ==
    IF file = NoFile THEN defaults
    ELSE IF try_raises(file) \in Exception THEN defaults
    ELSE LET c == file[1] IN
         config(get(c, "button_size", default_button_size),
                get(c, "side", "right"),
                get(c, "current_font", "Arial"),
                get(c, "theme", "light"),
                get(c, "x_pos", None),
                get(c, "y_pos", None))

\* The exception that leaves load_config: one its "except Exception" misses.
load_config_raises(file) ==
    IF file = NoFile \/ try_raises(file) \in Exception
    THEN NoError
    ELSE try_raises(file)

\* save_config that leaves the position out of the record.
save_config_no_anchor(bs, sd, f, th, x, y) ==
    <<config(bs, sd, f, th, None, None)>>

\* The file's content after a save_config that succeeds.
save_config(bs, sd, f, th, x, y) == <<config(bs, sd, f, th, x, y)>>

\* The exception that leaves save_config: open(..., "w") raises OSError on a
\* file that cannot be written, and no try statement is around it.
save_config_raises(w) == IF w THEN NoError ELSE "OSError"

\* The file after save_config: open raises before anything is written.
config_file_after(file, w, saved) == IF w THEN saved ELSE file

\* What calc_config.json may hold when the program starts.
ConfigFiles ==
    {NoFile} \cup
    {<<config(bs, sd, "Arial", "light", x, y)>> :
        bs \in Sizes, sd \in Sides, x \in SavedAnchors, y \in SavedAnchors}

---------------------------------------------------------------------------
(* The state after __init__, its first check_hover call pending *)

NoDrag == <<>>

\* The attributes __init__ leaves for a calc_config.json holding file:
\* load_config, set_geometry_parameters, build_ui, the first check_hover.
started(file) ==
    LET c == load_config(file) IN
    [raised |-> load_config_raises(file),
     button_size |-> c.button_size,
     side |-> c.side,
     current_font |-> c.current_font,
     theme |-> c.theme,
     is_expanded |-> FALSE,
     x_pos |-> DefaultX(c.side, c.button_size, c.x_pos),
     y_pos |-> DefaultY(c.side, c.button_size, c.y_pos),
     current_offset |-> ResetOffset(c.side, c.button_size, FALSE),
     expression |-> <<>>,
     timers |-> [check_hover |-> 1, anim |-> <<>>]]

\* The program has just been started on file.
Launch(file) ==
    LET s == started(file) IN
    /\ config_file = file
    /\ raised = s.raised
    /\ button_size = s.button_size
    /\ side = s.side
    /\ current_font = s.current_font
    /\ theme = s.theme
    /\ is_expanded = s.is_expanded
    /\ x_pos = s.x_pos
    /\ y_pos = s.y_pos
    /\ current_offset = s.current_offset
    /\ expression = s.expression
    /\ drag = NoDrag
    /\ timers = s.timers

\* The configuration file stays writable throughout.
Init == writable = TRUE /\ \E file \in ConfigFiles : Launch(file)

---------------------------------------------------------------------------
(* check_hover, and the slide_in / slide_out callbacks *)

\* The poll finds the pointer outside the stay-expanded rectangle.
triggers_slide_out(m) ==
    is_expanded /\ ~InFull(m, side, button_size, x_pos, y_pos)

\* The poll finds the pointer inside the sliver rectangle.
triggers_slide_in(m) ==
    ~is_expanded /\ InBar(m, side, button_size, x_pos, y_pos)

check_hover(m) ==
    /\ timers.check_hover > 0
    /\ IF triggers_slide_out(m)
       THEN /\ current_offset' = slide_out(side, button_size, current_offset)
            /\ timers' =
                   after_poll(
                       IF slide_out_moves(side, button_size, current_offset)
                       THEN after(fire_poll(timers), "slide_out")
                       ELSE fire_poll(timers))
            /\ is_expanded' = FALSE
       ELSE IF triggers_slide_in(m)
       THEN /\ current_offset' = slide_in(side, button_size, current_offset)
            /\ timers' =
                   after_poll(
                       IF slide_in_moves(side, button_size, current_offset)
                       THEN after(fire_poll(timers), "slide_in")
                       ELSE fire_poll(timers))
            /\ is_expanded' = TRUE
       ELSE /\ timers' = after_poll(fire_poll(timers))
            /\ UNCHANGED <<current_offset, is_expanded>>
    /\ AnimPending' <= MaxPending
    /\ raised' = NoError
    /\ UNCHANGED <<settings, x_pos, y_pos, expression, drag, config_file,
                   writable>>

CheckHover == \E m \in Mouse : check_hover(m)

SlideIn ==
    /\ due(timers, "slide_in")
    /\ current_offset' = slide_in(side, button_size, current_offset)
    /\ timers' = IF slide_in_moves(side, button_size, current_offset)
                 THEN after(fire(timers), "slide_in") ELSE fire(timers)
    /\ raised' = NoError
    /\ UNCHANGED <<settings, x_pos, y_pos, is_expanded, expression, drag,
                   config_file, writable>>

SlideOut ==
    /\ due(timers, "slide_out")
    /\ current_offset' = slide_out(side, button_size, current_offset)
    /\ timers' = IF slide_out_moves(side, button_size, current_offset)
                 THEN after(fire(timers), "slide_out") ELSE fire(timers)
    /\ raised' = NoError
    /\ UNCHANGED <<settings, x_pos, y_pos, is_expanded, expression, drag,
                   config_file, writable>>

---------------------------------------------------------------------------
(* start_move / do_move: dragging the handle *)

\* The anchor the drag moves: y_pos for left/right docking, x_pos otherwise.
Anchor == IF Horizontal(side) THEN y_pos ELSE x_pos

\* The widget's size and the screen's along the cross axis.
CrossSize(sd, bs) == IF Horizontal(sd) THEN full_height(bs) ELSE full_width(bs)

CrossScreen(sd) == IF Horizontal(sd) THEN screen_height ELSE screen_width

\* build_ui places the drag handle across the window's top: at window
\* ordinate sliding_y (hidden_size for bottom docking, else 0), handle_height
\* high and as wide as the window.
sliding_y(sd) == IF sd = "bottom" THEN hidden_size ELSE 0

\* The handle's extent along the cross axis, from the anchor.
HandleCross(sd, bs) ==
    IF Horizontal(sd) THEN handle_height(bs) ELSE full_width(bs)

\* Some part of the handle is on the screen along the docking axis.
HandleShows(sd, bs, off) ==
    IF Horizontal(sd)
    THEN off < screen_width /\ off + total_width(bs) > 0
    ELSE /\ off + sliding_y(sd) < screen_height
         /\ off + sliding_y(sd) + handle_height(bs) > 0

\* ButtonPress-1 on the handle at pointer coordinate p.
start_move(p) ==
    /\ drag' = <<p, Anchor>>
    /\ raised' = NoError
    /\ UNCHANGED <<settings, x_pos, y_pos, is_expanded, current_offset,
                   expression, timers, config_file, writable>>

\* The pointer, which is on the screen, presses the handle Grip units from
\* its origin (or at the screen's edge when that point is off the screen).
StartMove ==
    LET p == Max(Anchor + Grip, 0) IN
    /\ HandleShows(side, button_size, current_offset)
    /\ p < Anchor + HandleCross(side, button_size)
    /\ p < CrossScreen(side)
    /\ start_move(p)

\* do_move's clamp without its second branch (the far screen edge).
clamped_near_only(sd, bs, initial, delta) ==
    IF initial + delta < 0 THEN 0 ELSE initial + delta

\* new_y (new_x) of do_move for a drag of delta from the anchor initial.
clamped(sd, bs, initial, delta) ==
    LET new == initial + delta IN
    IF new < 0 THEN 0
    ELSE IF new + CrossSize(sd, bs) > CrossScreen(sd)
         THEN CrossScreen(sd) - CrossSize(sd, bs)
         ELSE new

\* do_move that writes the new position to both coordinates.
do_move_both(p) ==
    /\ drag # NoDrag
    /\ LET new == clamped(side, button_size, drag[2], p - drag[1]) IN
       /\ y_pos' = new
       /\ x_pos' = new
    /\ config_file' =
           config_file_after(config_file, writable,
               save_config(button_size, side, current_font, theme,
                           x_pos', y_pos'))
    /\ raised' = save_config_raises(writable)
    /\ UNCHANGED <<settings, is_expanded, current_offset, expression, drag,
                   timers, writable>>

\* B1-Motion on the handle at pointer coordinate p.
do_move(p) ==
    /\ drag # NoDrag
    /\ LET new == clamped(side, button_size, drag[2], p - drag[1]) IN
       /\ y_pos' = IF Horizontal(side) THEN new ELSE y_pos
       /\ x_pos' = IF Horizontal(side) THEN x_pos ELSE new
    /\ config_file' =
           config_file_after(config_file, writable,
               save_config(button_size, side, current_font, theme,
                           x_pos', y_pos'))
    /\ raised' = save_config_raises(writable)
    /\ UNCHANGED <<settings, is_expanded, current_offset, expression, drag,
                   timers, writable>>

DoMove == \E p \in DragTo : do_move(p)

---------------------------------------------------------------------------
(* on_button_click: the expression buffer, a sequence of characters *)

Digits == {"0", "1", "2", "3", "4", "5", "6", "7", "8", "9"}

\* The letters a buffer can hold: those of "Error" and of a pasted "nan" or
\* "inf".
Letters == {"E", "r", "o", "n", "a", "i", "f"}

Error == <<"E", "r", "r", "o", "r">>

\* A decimal integer literal of Python: digits, with no leading zero unless
\* every digit is zero.
IsIntLiteral(e) ==
    /\ Len(e) > 0
    /\ \A i \in 1..Len(e) : e[i] \in Digits
    /\ (e[1] = "0" => \A i \in 1..Len(e) : e[i] = "0")

DigitSeq == <<"0", "1", "2", "3", "4", "5", "6", "7", "8", "9">>

\* int(c) of one digit.
DigitVal(c) == (CHOOSE k \in 1..10 : DigitSeq[k] = c) - 1

RECURSIVE IntOf(_)
\* The value of a run of digits.
IntOf(e) ==
    IF e = <<>> THEN 0
    ELSE 10 * IntOf(SubSeq(e, 1, Len(e) - 1)) + DigitVal(e[Len(e)])

RECURSIVE str(_)
\* str(n) of an integer n >= 0: its decimal digits.
str(n) ==
    IF n < 10 THEN <<DigitSeq[n + 1]>>
    ELSE Append(str(n \div 10), DigitSeq[(n % 10) + 1])

RECURSIVE RunEnd(_, _, _)
\* The index after the longest run of characters of set cs that starts at i.
RunEnd(e, i, cs) ==
    IF i <= Len(e) /\ e[i] \in cs THEN RunEnd(e, i + 1, cs) ELSE i

\* eval(self.expression) for the expressions the buffer can hold: integer
\* literals, names, unary and binary "+", "/" and "//".  Python compiles the
\* whole text first (SyntaxError), then evaluates the operands from left to
\* right, so the first operand or operation to fail gives the exception.
\* A parse result: pos, the index after what was parsed; syn, a syntax error
\* was met; err, the first exception of the evaluation; val, the value.
\* The digit keys modelled beside "/" are "0" alone, so every divisor met is
\* zero; the float that "/" yields for a divisor other than zero is outside
\* this evaluator.
SyntaxErr(i) == [pos |-> i, syn |-> TRUE, err |-> NoError, val |-> 0]

\* NUMBER or NAME at index i.  A name is never bound: eval runs in the
\* module's globals, where no name made of Letters is defined.
atom(e, i) ==
    IF i > Len(e) THEN SyntaxErr(i)
    ELSE IF e[i] \in Digits
    THEN LET j == RunEnd(e, i, Digits) IN
         IF \/ ~IsIntLiteral(SubSeq(e, i, j - 1))
            \/ (j <= Len(e) /\ e[j] \in Letters)
         THEN SyntaxErr(i)
         ELSE [pos |-> j, syn |-> FALSE, err |-> NoError,
               val |-> IntOf(SubSeq(e, i, j - 1))]
    ELSE IF e[i] \in Letters
    THEN [pos |-> RunEnd(e, i, Letters \cup Digits), syn |-> FALSE,
          err |-> "NameError", val |-> 0]
    ELSE SyntaxErr(i)

RECURSIVE factor(_, _)
\* factor: "+" factor | atom
factor(e, i) ==
    IF i <= Len(e) /\ e[i] = "+" THEN factor(e, i + 1) ELSE atom(e, i)

\* left / right (or left // right) once both operands are evaluated.
divide(l, r) ==
    [pos |-> r.pos,
     syn |-> r.syn,
     err |-> IF l.err # NoError THEN l.err
             ELSE IF r.err # NoError THEN r.err
             ELSE IF r.val = 0 THEN "ZeroDivisionError" ELSE NoError,
     val |-> IF r.val = 0 THEN 0 ELSE l.val \div r.val]

\* left + right once both operands are evaluated.
add(l, r) ==
    [pos |-> r.pos,
     syn |-> r.syn,
     err |-> IF l.err # NoError THEN l.err ELSE r.err,
     val |-> l.val + r.val]

RECURSIVE term_rest(_, _)
\* term: factor (("/" | "//") factor)*
term_rest(e, l) ==
    IF l.syn \/ l.pos > Len(e) \/ e[l.pos] # "/" THEN l
    ELSE LET floor == l.pos < Len(e) /\ e[l.pos + 1] = "/"
             r == factor(e, l.pos + (IF floor THEN 2 ELSE 1))
         IN  term_rest(e, divide(l, r))

term(e, i) == term_rest(e, factor(e, i))

RECURSIVE expr_rest(_, _)
\* expr: term ("+" term)*
expr_rest(e, l) ==
    IF l.syn \/ l.pos > Len(e) \/ e[l.pos] # "+" THEN l
    ELSE expr_rest(e, add(l, term(e, l.pos + 1)))

expr(e) == expr_rest(e, term(e, 1))

\* The exception eval(e) raises, or NoError.
eval_raises(e) ==
    LET r == expr(e) IN
    IF r.syn \/ r.pos <= Len(e) THEN "SyntaxError" ELSE r.err

\* The buffer after "=": str(eval(expression)), or "Error" when the
\* "except Exception" catches what eval raised.
evaluate(e) ==
    IF eval_raises(e) = NoError THEN str(expr(e).val)
    ELSE IF eval_raises(e) \in Exception THEN Error
    ELSE e

\* The exception that leaves the "=" branch: one "except Exception" misses.
evaluate_raises(e) ==
    IF eval_raises(e) \in Exception THEN NoError ELSE eval_raises(e)

\* on_button_click that clears on "C" alone.
on_button_click_C_only(char) ==
    /\ IF char = "C"
       THEN expression' = <<>>
       ELSE IF char = "="
       THEN expression' = evaluate(expression)
       ELSE /\ Len(expression) < MaxExprLen
            /\ expression' = Append(expression, char)
    /\ raised' = IF char = "=" THEN evaluate_raises(expression) ELSE NoError
    /\ UNCHANGED <<settings, x_pos, y_pos, is_expanded, current_offset, drag,
                   timers, config_file, writable>>

on_button_click(char) ==
    /\ IF char \in {"C", "CE"}
       THEN expression' = <<>>
       ELSE IF char = "="
       THEN expression' = evaluate(expression)
       ELSE /\ Len(expression) < MaxExprLen
            /\ expression' = Append(expression, char)
    /\ raised' = IF char = "=" THEN evaluate_raises(expression) ELSE NoError
    /\ UNCHANGED <<settings, x_pos, y_pos, is_expanded, current_offset, drag,
                   timers, config_file, writable>>

OnButtonClick == \E char \in ClickChars : on_button_click(char)

KeyPress == \E char \in Keys : on_button_click(char)

---------------------------------------------------------------------------
(* paste_from_clipboard *)

RECURSIVE lstrip(_)
lstrip(t) == IF t # <<>> /\ t[1] = " " THEN lstrip(Tail(t)) ELSE t

RECURSIVE rstrip(_)
rstrip(t) ==
    IF t # <<>> /\ t[Len(t)] = " " THEN rstrip(SubSeq(t, 1, Len(t) - 1)) ELSE t

\* str.strip()
strip(t) == lstrip(rstrip(t))

\* The exception clipboard_get raises: TclError without a selection.
clipboard_get_raises(clip) == IF clip = NoSelection THEN "TclError" ELSE NoError

\* The text after an optional sign.
unsigned(t) == IF t # <<>> /\ t[1] \in {"+", "-"} THEN Tail(t) ELSE t

\* Digits with at most one point among them, and one digit at least.
IsDecimal(u) ==
    /\ \A i \in 1..Len(u) : u[i] \in Digits \cup {"."}
    /\ Cardinality({i \in 1..Len(u) : u[i] = "."}) <= 1
    /\ \E i \in 1..Len(u) : u[i] \in Digits

\* The exception float(t) raises.  float takes a signed decimal and, beside
\* it, "nan", "inf" and "infinity" (exponents, digit separators and capital
\* letters, which it takes too, are in no clipboard text here).
float_raises(t) ==
    IF \/ IsDecimal(unsigned(t))
       \/ unsigned(t) \in {<<"n", "a", "n">>, <<"i", "n", "f">>,
                            <<"i", "n", "f", "i", "n", "i", "t", "y">>}
    THEN NoError
    ELSE "ValueError"

\* paste_from_clipboard with the clipboard holding clip.
paste_from_clipboard(clip) ==
    /\ IF clipboard_get_raises(clip) = NoError
          /\ float_raises(strip(clip)) = NoError
       THEN /\ Len(expression) + Len(strip(clip)) <= MaxExprLen
            /\ expression' = expression \o strip(clip)
       ELSE UNCHANGED expression
    /\ raised' = NoError
    /\ UNCHANGED <<settings, x_pos, y_pos, is_expanded, current_offset, drag,
                   timers, config_file, writable>>

Paste == \E clip \in Clipboard : paste_from_clipboard(clip)

---------------------------------------------------------------------------
(* The settings menu: update_size, update_side, update_font, update_theme *)

\* rebuild_ui for the new settings, then save_config.  set_geometry_parameters
\* centres a None anchor and resets current_offset; build_ui empties the
\* expression and makes a new drag handle, which ends a drag in progress.
rebuild_and_save(bs, sd, f, th) ==
    /\ button_size' = bs
    /\ side' = sd
    /\ current_font' = f
    /\ theme' = th
    /\ x_pos' = DefaultX(sd, bs, x_pos)
    /\ y_pos' = DefaultY(sd, bs, y_pos)
    /\ current_offset' = ResetOffset(sd, bs, is_expanded)
    /\ expression' = <<>>
    /\ drag' = NoDrag
    /\ config_file' =
           config_file_after(config_file, writable,
               save_config(bs, sd, f, th, x_pos', y_pos'))
    /\ raised' = save_config_raises(writable)
    /\ UNCHANGED <<is_expanded, timers, writable>>

update_size(new_size) ==
    rebuild_and_save(new_size, side, current_font, theme)

update_side(new_side) ==
    rebuild_and_save(button_size, new_side, current_font, theme)

update_font(new_font) ==
    rebuild_and_save(button_size, side, new_font, theme)

update_theme(new_theme) ==
    rebuild_and_save(button_size, side, current_font, new_theme)

UpdateSize == \E s \in Sizes : update_size(s)

UpdateSide == \E d \in Sides : update_side(d)

UpdateFont == \E f \in Fonts : update_font(f)

UpdateTheme == \E t \in Themes : update_theme(t)

---------------------------------------------------------------------------
(* The program: every handler, in any order Tk may run them *)

Next ==
    \/ CheckHover
    \/ SlideIn
    \/ SlideOut
    \/ StartMove
    \/ DoMove
    \/ UpdateSize
    \/ UpdateSide

Spec == Init /\ [][Next]_vars

\* The dock state machine on its own: polls, animation callbacks and the
\* settings changes that rebuild the layout under it; nothing is dragged.
DockNext ==
    \/ CheckHover
    \/ SlideIn
    \/ SlideOut
    \/ UpdateSize
    \/ UpdateSide

DockSpec == Init /\ [][DockNext]_vars

\* A session started without a configuration file (button_size stays 48),
\* with the calculator's buttons in use.
SessionInit == Init /\ config_file = NoFile

SessionNext ==
    \/ CheckHover
    \/ SlideIn
    \/ SlideOut
    \/ StartMove
    \/ DoMove
    \/ UpdateSide
    \/ OnButtonClick

SessionSpec == SessionInit /\ [][SessionNext]_vars

\* The calculator on its own: buttons and pastes in a session started without
\* a configuration file.
CalcNext ==
    \/ KeyPress
    \/ Paste

CalcSpec == SessionInit /\ [][CalcNext]_vars

\* What calc_config.json may hold when a session starts, beyond the files an
\* earlier session saved: nothing, an unreadable file, text that is no JSON
\* object, an object with keys missing, and an object edited by hand to a
\* cell size the menu does not offer.
StoredFiles ==
    {NoFile, Unreadable, Malformed, NotObject,
     <<[side |-> "left"]>>,
     <<[button_size |-> 64, theme |-> "dark", y_pos |-> 0]>>,
     <<config(50, "right", "Arial", "light", None, None)>>,
     <<config(64, "top", "Tahoma", "dark", 0, None)>>}

\* The file is made writable (its read-only flag cleared) while the program
\* runs.
MakeWritable ==
    /\ ~writable
    /\ writable' = TRUE
    /\ UNCHANGED <<settings, x_pos, y_pos, is_expanded, current_offset,
                   expression, drag, timers, config_file, raised>>

\* "Exit" of the settings menu (root.destroy), and the program started again:
\* __init__ runs on the file the session before left behind.
Relaunch ==
    LET s == started(config_file) IN
    /\ raised' = s.raised
    /\ button_size' = s.button_size
    /\ side' = s.side
    /\ current_font' = s.current_font
    /\ theme' = s.theme
    /\ is_expanded' = s.is_expanded
    /\ x_pos' = s.x_pos
    /\ y_pos' = s.y_pos
    /\ current_offset' = s.current_offset
    /\ expression' = s.expression
    /\ drag' = NoDrag
    /\ timers' = s.timers
    /\ UNCHANGED <<config_file, writable>>

\* Sessions that change the settings and drag the widget, started from any
\* stored file, the file writable or not.
ConfigInit == writable \in BOOLEAN /\ \E file \in StoredFiles : Launch(file)

ConfigNext ==
    \/ UpdateSize
    \/ UpdateSide
    \/ UpdateFont
    \/ UpdateTheme
    \/ StartMove
    \/ DoMove
    \/ MakeWritable
    \/ Relaunch

ConfigSpec == ConfigInit /\ [][ConfigNext]_vars

\* The pointer enters the sliver only while the widget rests hidden: once a
\* retraction has begun it stays away until the widget has come to rest.
RestHidden ==
    /\ ~is_expanded
    /\ current_offset = HiddenOffset(side, button_size)
    /\ AnimPending = 0

HoverPoll ==
    \E m \in Mouse :
        /\ triggers_slide_in(m) => RestHidden
        /\ check_hover(m)

FairNext ==
    \/ HoverPoll
    \/ SlideIn
    \/ SlideOut

\* Tk runs every due callback: a pending callback is not postponed forever.
FairSpec ==
    /\ Init
    /\ [][FairNext]_vars
    /\ WF_vars(HoverPoll)
    /\ WF_vars(SlideIn)
    /\ WF_vars(SlideOut)

---------------------------------------------------------------------------
(* Properties *)

Abs(n) == IF n < 0 THEN -n ELSE n

RestVisible ==
    /\ is_expanded
    /\ current_offset = VisibleOffset(side, button_size)
    /\ AnimPending = 0

\* current_offset lies strictly between the hidden and the visible offset.
Midway ==
    LET h == HiddenOffset(side, button_size)
        v == VisibleOffset(side, button_size)
    IN  Min(h, v) < current_offset /\ current_offset < Max(h, v)

\* An expansion has been started and can still reach the visible offset.
Expanding ==
    /\ is_expanded
    /\ \/ current_offset = VisibleOffset(side, button_size)
       \/ pending(timers, "slide_in") > 0

\* A retraction has been started and can still reach the hidden offset.
Retracting ==
    /\ ~is_expanded
    /\ \/ current_offset = HiddenOffset(side, button_size)
       \/ pending(timers, "slide_out") > 0

\* C1: from rest in Hidden, a poll that finds the pointer in the sliver
\* starts an expansion that reaches the visible offset.  What the claim
\* requires of the triggering poll itself: afterwards the widget is at the
\* visible offset or a slide_in callback is pending to carry it there (with
\* neither, no later poll or callback moves it while the pointer stays inside).
C1_PollInSliverStartsExpansion ==
    [][\A m \in Mouse :
         (/\ RestHidden
          /\ InBar(m, side, button_size, x_pos, y_pos)
          /\ check_hover(m)) => Expanding']_vars

\* C2: from rest in Visible, a poll that finds the pointer outside the
\* stay-expanded rectangle starts a retraction that reaches the hidden
\* offset.  What the claim requires of the triggering poll itself: afterwards
\* the widget is at the hidden offset or a slide_out callback is pending.
C2_PollOutsideStartsRetraction ==
    [][\A m \in Mouse :
         (/\ RestVisible
          /\ ~InFull(m, side, button_size, x_pos, y_pos)
          /\ check_hover(m)) => Retracting']_vars

\* C3: at most one animation callback (slide_in or slide_out) is pending in
\* the timer queue in every reachable state.
C3_OneAnimationPending ==
    pending(timers, "slide_in") + pending(timers, "slide_out") <= 1

\* C4: once a poll has triggered retraction while an expansion is still in
\* progress, and the pointer stays away from the sliver, the widget comes to
\* rest at the hidden offset with no animation callback pending (checked under
\* FairSpec: fair callbacks, the pointer away until the widget rests).
C4_RetargetComesToRest ==
    (/\ ~is_expanded
     /\ Midway
     /\ pending(timers, "slide_in") > 0
     /\ pending(timers, "slide_out") > 0) ~> RestHidden

\* C5: a poll, and every slide_in or slide_out callback, changes current_offset
\* by at most the step of 10: a retarget continues from the live offset.
C5_NoJump ==
    [][(CheckHover \/ SlideIn \/ SlideOut) =>
         Abs(current_offset' - current_offset) <= step]_vars

\* C5's case: retraction triggered mid-expansion, both callbacks pending.
C5_RetargetedMidway ==
    /\ ~is_expanded
    /\ Midway
    /\ pending(timers, "slide_in") > 0
    /\ pending(timers, "slide_out") > 0

\* The part of [a, a + len) that lies inside a screen extent [0, scr).
OnScreen(a, len, scr) == Max(0, Min(a + len, scr) - Max(a, 0))

\* The window's extent along the docking axis, and the screen's.
DockSize(sd, bs) == IF Horizontal(sd) THEN total_width(bs) ELSE total_height(bs)

DockScreen(sd) == IF Horizontal(sd) THEN screen_width ELSE screen_height

\* C6: placed at the hidden offset, exactly hidden_size units of the window's
\* extent along the docking axis lie inside the screen.
C6_HiddenExposesSliver ==
    OnScreen(HiddenOffset(side, button_size), DockSize(side, button_size),
             DockScreen(side)) = hidden_size

\* C7: placed at the visible offset, the window's whole extent along the
\* docking axis lies within the screen.  Stated for the windows that fit the
\* screen along that axis, where the claim can be met at all.
C7_VisibleWithinScreen ==
    DockSize(side, button_size) <= DockScreen(side) =>
        /\ 0 <= VisibleOffset(side, button_size)
        /\ VisibleOffset(side, button_size) + DockSize(side, button_size)
               <= DockScreen(side)

\* The widget lies inside the screen along the cross axis.
AnchorWithinScreen ==
    /\ 0 <= Anchor
    /\ Anchor + CrossSize(side, button_size) <= CrossScreen(side)

Fits == CrossSize(side, button_size) <= CrossScreen(side)

\* C8 as stated: after any do_move the widget lies fully inside the screen
\* along the cross axis, for every cell size.
C8_DragKeepsWidgetInside == [][DoMove => AnchorWithinScreen']_vars

\* C8 as amended: after any do_move of a widget whose cross-axis size does not
\* exceed the screen's, the widget lies fully inside the screen along the
\* cross axis.
C8_DragKeepsFittingWidgetInside ==
    [][DoMove => (Fits => AnchorWithinScreen')]_vars

\* C8's case: a drag has moved a fitting widget and the far-edge clamp acted.
C8_DraggedToFarEdge ==
    /\ drag # NoDrag
    /\ Fits
    /\ Anchor # drag[2]
    /\ Anchor = CrossScreen(side) - CrossSize(side, button_size)

\* C9: in every reachable state the anchor keeps the full widget within the
\* screen on the cross axis.  Stated for the widgets that fit the screen on
\* that axis, where the claim can be met at all.
C9_AnchorWithinScreen == Fits => AnchorWithinScreen

\* C10: start_move and do_move change nothing but the anchor on the cross
\* axis (and the drag's own bookkeeping): current_offset, is_expanded, the
\* settings that fix the hidden and visible offsets, the other anchor
\* coordinate and the expression stay as they are.
C10_DragMovesOnlyCrossAxis ==
    [][(StartMove \/ DoMove) =>
         /\ UNCHANGED <<current_offset, is_expanded, expression, settings>>
         /\ HiddenOffset(side', button_size') = HiddenOffset(side, button_size)
         /\ VisibleOffset(side', button_size') = VisibleOffset(side, button_size)
         /\ Horizontal(side) => x_pos' = x_pos
         /\ ~Horizontal(side) => y_pos' = y_pos]_vars

\* C10's case: a drag has moved the anchor while an animation is under way
\* and the expression is not empty.
C10_DraggedMidAnimation ==
    /\ drag # NoDrag
    /\ Anchor # drag[2]
    /\ expression # <<>>
    /\ Midway
    /\ AnimPending > 0

\* The file holds no settings: it is missing, unreadable or no JSON object.
Broken(file) == file = NoFile \/ try_raises(file) # NoError

\* C11: load_config never fails.  Started on a file that is missing, cannot
\* be read or holds malformed content, the program raises nothing and has the
\* documented defaults in all six settings (the anchors unset, so that
\* set_geometry_parameters centres the one the dock edge uses).
C11_LoadNeverFails ==
    [][(Relaunch /\ Broken(config_file)) =>
         /\ raised' = NoError
         /\ button_size' = 48
         /\ side' = "right"
         /\ current_font' = "Arial"
         /\ theme' = "light"
         /\ x_pos' = None
         /\ y_pos' = DefaultY("right", 48, None)]_vars

\* C11's case: a session started on malformed content after the session
\* before could not save, and runs on the defaults.
C11_StartedOnMalformed ==
    /\ config_file = Malformed
    /\ ~writable
    /\ raised = NoError
    /\ drag = NoDrag
    /\ <<button_size, side, current_font, theme, x_pos>>
           = <<48, "right", "Arial", "light", None>>

\* C12: the settings in memory are valid whatever the configuration file
\* held: button_size is one of the menu's sizes, side one of the four edges,
\* theme light or dark.
C12_LoadedSettingsValid ==
    /\ button_size \in Sizes
    /\ side \in Sides
    /\ theme \in Themes

\* The six settings in memory, as save_config collects them.
Settings == config(button_size, side, current_font, theme, x_pos, y_pos)

\* A handler that ends in save_config has run.
Mutation == UpdateSize \/ UpdateSide \/ UpdateFont \/ UpdateTheme \/ DoMove

\* C13: configuration round trip.  Started on the file save_config wrote of
\* the settings in memory, the program has exactly those settings again in
\* all six fields; started without a file it has the documented defaults.
C13_RoundTrip ==
    [][Relaunch =>
         /\ config_file = save_config(button_size, side, current_font, theme,
                                      x_pos, y_pos)
               => Settings' = Settings
         /\ config_file = NoFile
               => /\ <<button_size', side', current_font', theme'>>
                       = <<48, "right", "Arial", "light">>
                  /\ x_pos' = None]_vars

\* C13's case: a session runs on settings, none of them the default, that the
\* file holds as save_config wrote them.
C13_SavedSettingsLoaded ==
    /\ config_file = <<Settings>>
    /\ button_size = 128
    /\ side = "top"
    /\ current_font = "Verdana"
    /\ theme = "dark"
    /\ x_pos # None
    /\ y_pos # None
    /\ drag = NoDrag

\* C14: a failed write in save_config is ignored: the handler that called
\* save_config lets no exception escape.
C14_FailedSaveIgnored ==
    [][(Mutation /\ ~writable) => raised' = NoError]_vars

\* C15: when a settings-menu operation or a drag event completes with a
\* successful write, the persisted record equals the settings in memory in
\* all six fields.
C15_SavedAfterMutation ==
    [][(Mutation /\ writable) => config_file' = <<Settings'>>]_vars

\* C15's case: the file holds a dragged anchor and a font chosen in the menu.
C15_DraggedAndSaved ==
    /\ drag # NoDrag
    /\ Anchor # drag[2]
    /\ current_font = "Calibri"
    /\ writable
    /\ config_file = <<Settings>>

\* The buffer is the decimal text of a whole number.
IsNumeral(e) == e # <<>> /\ \A i \in 1..Len(e) : e[i] \in Digits

\* C16: a button click lets no exception escape.  "=" makes the buffer the
\* result's text when the evaluation succeeds and exactly "Error" when it
\* fails, as it does on an empty buffer, a malformed expression and a division
\* by zero; C and CE leave the buffer empty; any other button appends its
\* token.
C16_ButtonClick ==
    [][\A char \in Keys : on_button_click(char) =>
         /\ raised' = NoError
         /\ char \in {"C", "CE"} => expression' = <<>>
         /\ char \notin {"C", "CE", "="} => expression' = Append(expression, char)
         /\ char = "=" =>
              /\ expression' = Error \/ IsNumeral(expression')
              /\ eval_raises(expression) # NoError <=> expression' = Error
              /\ expression \in {<<>>, <<"0", "+">>, <<"0", "/", "0">>,
                                 <<"0", "/", "/", "0">>, <<"0", "0", "/">>}
                    => expression' = Error
              /\ expression \in {<<"0", "+", "0">>, <<"0", "0">>, <<"+", "0">>}
                    => expression' = <<"0">>]_vars

\* C16's case: "=" has failed on the buffer and left the marker in it.
C16_EvaluationFailed ==
    /\ expression = Error
    /\ raised = NoError

\* C17: once an evaluation error has put "Error" in the buffer, a digit
\* pressed or a number pasted next starts afresh: the buffer then holds the
\* new input alone.
C17_FreshAfterError ==
    [][/\ \A char \in Keys \cap Digits :
            (expression = Error /\ on_button_click(char))
                => expression' = <<char>>
       /\ \A clip \in Clipboard :
            (/\ expression = Error
             /\ IsDecimal(strip(clip))
             /\ paste_from_clipboard(clip))
                => expression' = strip(clip)]_vars

\* The settings, the dock state and the files a calculator input leaves alone.
Surroundings ==
    <<settings, x_pos, y_pos, is_expanded, current_offset, drag, timers,
      config_file, writable>>

\* A plain decimal number: an optional sign, digits, at most one point.
IsPlainDecimal(t) == IsDecimal(unsigned(t))

\* C18: paste appends the clipboard text only when it is a plain decimal
\* number; without a selection, or with other text, it changes nothing and
\* raises nothing.
C18_PasteOnlyNumbers ==
    [][\A clip \in Clipboard : paste_from_clipboard(clip) =>
         /\ raised' = NoError
         /\ UNCHANGED Surroundings
         /\ IF clip # NoSelection /\ IsPlainDecimal(strip(clip))
            THEN expression' = expression \o strip(clip)
            ELSE expression' = expression]_vars

\* C19: is_expanded agrees with where the widget rests: with no slide_in or
\* slide_out callback pending, is_expanded is true exactly when current_offset
\* is the visible offset and false exactly when it is the hidden offset.
C19_ExpandedMatchesRest ==
    AnimPending = 0 =>
        /\ is_expanded <=> current_offset = VisibleOffset(side, button_size)
        /\ ~is_expanded <=> current_offset = HiddenOffset(side, button_size)

\* The rectangle the window covers, as update_geometry places it.
window(g) ==
    [left |-> g.x, right |-> g.x + g.w, top |-> g.y, bottom |-> g.y + g.h]

\* The part of a rectangle that lies on the screen.
OnScreenPart(r) ==
    [left |-> Max(r.left, 0), right |-> Min(r.right, screen_width),
     top |-> Max(r.top, 0), bottom |-> Min(r.bottom, screen_height)]

\* The window's footprint: the on-screen part of where it is placed now.
Footprint ==
    OnScreenPart(window(geometry(side, button_size, current_offset,
                                 x_pos, y_pos)))

\* C20: the rectangles check_hover tests are the widget's footprint.  At rest
\* hidden, the sliver rectangle is the on-screen part of the window; at rest
\* visible, the stay-expanded rectangle is the window's rectangle (both taken
\* where the pointer can be: on the screen).
C20_HitRectanglesMatchFootprint ==
    /\ RestHidden =>
          OnScreenPart(bar(side, button_size, x_pos, y_pos)) = Footprint
    /\ RestVisible =>
          OnScreenPart(full(side, button_size, x_pos, y_pos)) = Footprint

\* C21: the animation never overshoots.  In every reachable state, under
\* every interleaving of polls, callbacks, drags and settings changes,
\* current_offset lies between the hidden and the visible offset of the
\* current layout, both included.
C21_NoOvershoot ==
    LET h == HiddenOffset(side, button_size)
        v == VisibleOffset(side, button_size)
    IN  Min(h, v) <= current_offset /\ current_offset <= Max(h, v)

\* C21's case: a slide_in step shorter than 10 has just stopped the window at
\* the visible offset (the callback it scheduled is still pending) with the
\* handle pressed; no file has been written, so no rebuild has reset the
\* offset.
C21_ClampedAtVisible ==
    /\ current_offset = VisibleOffset(side, button_size)
    /\ Abs(HiddenOffset(side, button_size) - current_offset) % step # 0
    /\ pending(timers, "slide_in") > 0
    /\ config_file = NoFile
    /\ drag # NoDrag

\* C22: only calculator input changes the expression buffer: a settings
\* change, a drag event, a poll and an animation step leave it as it is.
C22_OnlyInputChangesExpression ==
    [][(\/ UpdateSize \/ UpdateSide \/ UpdateFont \/ UpdateTheme
        \/ StartMove \/ DoMove \/ CheckHover \/ SlideIn \/ SlideOut)
         => expression' = expression]_vars

\* C23: the poll never stops and never multiplies: exactly one check_hover
\* callback is pending in every reachable state, whatever polls, animation
\* steps, drags and settings changes have run.
C23_OnePollPending == timers.check_hover = 1

\* C23's case: polls have run (the widget is expanding), the layout has been
\* rebuilt for another dock edge (both anchors are set) and a drag has moved
\* the anchor.
C23_PolledRebuiltDragged ==
    /\ is_expanded
    /\ pending(timers, "slide_in") > 0
    /\ x_pos \notin {None, 0}
    /\ y_pos \notin {None, 0}
    /\ drag # NoDrag
    /\ Anchor # drag[2]

=============================================================================
